---- MODULE Spec2Model ----
(***************************************************************************)
(* State-machine model of the calibration pipeline of                      *)
(* calibrate-camera-system: the target filter, the batch-averaged          *)
(* intrinsic and extrinsic calibrators, the worker pool of the target      *)
(* detection and the two camera models (CameraTransformer, CameraModel).   *)
(*                                                                         *)
(* Real-valued quantities are modelled by exact integer arithmetic:        *)
(* a deviation |x - mean| over n images is kept as n*|x - mean|, and a     *)
(* percentile as 100 times its value, so every comparison of the code is   *)
(* decided exactly (floating-point rounding and NaN are outside the model).*)
(***************************************************************************)
EXTENDS Integers, Sequences, FiniteSets, TLC

VARIABLES
    fn,              \* the entry point this run executes
    pc,              \* position inside the entry point
    status,          \* "running", "returned" or "raised"
    err,             \* the exception that ended the run, "none" otherwise
    targets,         \* filter input: image uri -> flattened point array
    sims,            \* value of avg_total_distances_inv per image
    p_std,           \* point_top_std_exclusion_percentle
    p_dist,          \* target_top_inverse_distance_exclusion_percentile
    afterStd,        \* uris left after the per-point pass
    filterResult,    \* what filter_images_for_intrinsics returned
    optim_iterations,\* number of averaged solves
    iter,            \* solves accumulated into the running average
    attempts,        \* solves started in the current averaging loop
    intrinsicsFiles, \* cameras with a calibration_intrinsics/<uuid>.json
    cameras,         \* the rig, a sequence of distinct camera uuids
    camIdx,          \* position of the target-loading loop
    filteredBy,      \* camera -> what the filter returned for it
    all_frames,      \* frame id -> cameras that observed it
    all_valid_frames,\* frame ids kept for stereo calibration
    mainIdx,         \* position of the main_cam loop
    otherIdx,        \* position of the inner camera loop
    extrinsic_output,\* main camera -> camera -> averaged transform
    extrinsicsFile,  \* calibration_extrinsics.json
    image_uris,      \* the images of the camera's folder, in listing order
    detection,       \* image -> what check_and_get_target_corners does on it
    writeFails,      \* whether writing calibration_targets/<uuid>.json fails
    process_results, \* the AsyncResult of every submitted task
    workers,         \* worker -> Idle, Exited or the index of the task it runs
    poolState,       \* "RUN", "CLOSE" or "joined"
    getIdx,          \* position of the result.get() loop
    waitIdx,         \* position of the result.wait() loop
    results,         \* the pairs collected by result.get()
    completed,       \* task indices in the order the workers finished them
    targetsFile,     \* calibration_targets/<uuid>.json
    m_intrinsics,    \* the camera model's intrinsics
    m_extrinsics,    \* the camera model's extrinsics
    projection_matrices, \* CameraTransformer.projection_matrices
    call,            \* the last call made on the constructed camera model
    num_images_to_collect, \* collect_images: frames asked for
    max_error_frames,\* collect_images: consecutive failures tolerated
    collected_frames,\* collect_images: frames counted as saved
    error_frames,    \* collect_images: failure counter
    saveLog,         \* what every save_image call returned, in order
    started,         \* the collaborators that were started
    stopped          \* the collaborators that were stopped, in order

filterVars == <<targets, sims, p_std, p_dist, afterStd, filterResult>>
loopVars == <<optim_iterations, iter, attempts>>
rigVars == <<cameras, camIdx, filteredBy, all_frames, all_valid_frames,
             mainIdx, otherIdx, extrinsic_output>>
fileVars == <<intrinsicsFiles, extrinsicsFile>>
poolVars == <<image_uris, detection, writeFails, process_results, workers,
              poolState, getIdx, waitIdx, results, completed, targetsFile>>
modelVars == <<m_intrinsics, m_extrinsics, projection_matrices, call>>
collectVars == <<num_images_to_collect, max_error_frames, collected_frames,
                 error_frames, saveLog, started, stopped>>
restVars == <<poolVars, modelVars, collectVars>>
vars == <<fn, pc, status, err, filterVars, loopVars, rigVars, fileVars,
          poolVars, modelVars, collectVars>>

----------------------------------------------------------------------------
(* Bounds and input domains *)

PointVals == {0, 1}
SimVals == {0, 1}
MaxIter == 2
MaxTasks == 3
MaxWorkers == 2
MaxImages == 2
MaxErrorFrames == 2
ModelCams == {"cam1", "cam2"}
Transforms == {"I", "Rt"}
RigCams == {"cam1", "cam2", "cam3"}
Rigs == {<<"cam1">>, <<"cam1", "cam2">>, <<"cam1", "cam2", "cam3">>}
CalibPercentiles == {10, 20}
Frames == {"A", "B", "C", "D"}
FilterFrames == {"A", "B", "C"}
Percentiles == {0, 10, 20, 50, 100}
Coords == {1, 2}

Uri(cam, frame) == <<cam, frame>>
Basename(uri) == uri[2]

Patterns(coords) == [coords -> PointVals]
TargetsOver(uris, coords) == UNION {[S -> Patterns(coords)] : S \in SUBSET uris}

----------------------------------------------------------------------------
(* numpy helpers *)

Abs(x) == IF x < 0 THEN -x ELSE x

RECURSIVE SumOver(_, _)
SumOver(f, S) ==
    IF S = {} THEN 0
    ELSE LET i == CHOOSE j \in S : TRUE IN f[i] + SumOver(f, S \ {i})

\* k-th smallest value (1-based) of the values f takes on S
KthSmallest(f, S, k) ==
    CHOOSE v \in {f[i] : i \in S} :
        /\ Cardinality({i \in S : f[i] < v}) < k
        /\ Cardinality({i \in S : f[i] <= v}) >= k

\* 100 * np.percentile(values of f on S, q), linear interpolation
Percentile100(f, S, q) ==
    LET n    == Cardinality(S)
        pos  == q * (n - 1)
        lo   == pos \div 100
        fr   == pos % 100
        vlo  == KthSmallest(f, S, lo + 1)
    IN  IF fr = 0 THEN 100 * vlo
        ELSE 100 * vlo + fr * (KthSmallest(f, S, lo + 2) - vlo)

----------------------------------------------------------------------------
(* filter_images_for_intrinsics *)

\* n * per_point_std[i][k], n the number of images
PerPointStd(t, i, k) ==
    LET S == DOMAIN t
    IN  Abs(Cardinality(S) * t[i][k] - SumOver([j \in S |-> t[j][k]], S))

\* 100 * n * top_std_percentile_threshold[k]
TopStdThreshold(t, k, p1) ==
    Percentile100([j \in DOMAIN t |-> PerPointStd(t, j, k)], DOMAIN t, 100 - p1)

ValidStdMask(t, i, k, p1) == 100 * PerPointStd(t, i, k) <= TopStdThreshold(t, k, p1)

RowPassesAny(t, i, p1) == \E k \in DOMAIN t[i] : ValidStdMask(t, i, k, p1)
RowPasses(t, i, p1) == \A k \in DOMAIN t[i] : ValidStdMask(t, i, k, p1)

StdSurvivors(t, p1) == {i \in DOMAIN t : RowPasses(t, i, p1)}

ValidDistanceMaskInclusive(s, S, i, p2) == 100 * s[i] <= Percentile100(s, S, 100 - p2)
ValidDistanceMask(s, S, i, p2) == 100 * s[i] < Percentile100(s, S, 100 - p2)

DistSurvivors(s, S, p2) == {i \in S : ValidDistanceMask(s, S, i, p2)}

NoneResult == [ret |-> "None", keys |-> {}]
DictResult(S) == [ret |-> "dict", keys |-> S]
RaiseResult(e) == [ret |-> e, keys |-> {}]

FilterImages(t, s, p1, p2) ==
    IF DOMAIN t = {} THEN RaiseResult("ValueError")
    ELSE LET S1 == StdSurvivors(t, p1)
         IN  IF S1 = {} THEN NoneResult
             ELSE LET S2 == DistSurvivors(s, S1, p2)
                  IN  IF S2 = {} THEN NoneResult ELSE DictResult(S2)

----------------------------------------------------------------------------
(* Values of the variables an entry point does not use *)

NotCalled == [ret |-> "not called", keys |-> {}]
NoFile == [written |-> FALSE, table |-> <<>>]
NoOutput == <<>>

IdleFilter ==
    /\ targets = <<>> /\ sims = <<>> /\ afterStd = {}
IdleLoop ==
    /\ optim_iterations = 0 /\ iter = 0 /\ attempts = 0
IdleRig ==
    /\ cameras = <<>> /\ camIdx = 0 /\ filteredBy = <<>>
    /\ all_frames = [f \in Frames |-> {}] /\ all_valid_frames = {}
    /\ mainIdx = 0 /\ otherIdx = 0 /\ extrinsic_output = NoOutput
IdleFiles ==
    /\ intrinsicsFiles = {} /\ extrinsicsFile = NoFile
NoCall == [op |-> "none"]
IdlePool ==
    /\ image_uris = <<>> /\ detection = <<>> /\ writeFails = FALSE
    /\ process_results = <<>> /\ workers = <<>> /\ poolState = "none"
    /\ getIdx = 0 /\ waitIdx = 0 /\ results = <<>> /\ targetsFile = NoFile
    /\ completed = <<>>
IdleModel ==
    /\ m_intrinsics = {} /\ m_extrinsics = <<>>
    /\ projection_matrices = <<>> /\ call = NoCall
IdleCollect ==
    /\ num_images_to_collect = 0 /\ max_error_frames = 0
    /\ collected_frames = 0 /\ error_frames = 0
    /\ saveLog = <<>> /\ started = {} /\ stopped = <<>>

----------------------------------------------------------------------------
(* Specification of one call of filter_images_for_intrinsics *)

FilterUris == {Uri("cam1", f) : f \in FilterFrames}

InitFilter ==
    /\ fn = "filter_images_for_intrinsics"
    /\ pc = "std_pass"
    /\ status = "running"
    /\ err = "none"
    /\ targets \in TargetsOver(FilterUris, Coords)
    /\ sims \in [DOMAIN targets -> SimVals]
    /\ p_std \in Percentiles
    /\ p_dist \in Percentiles
    /\ afterStd = {}
    /\ filterResult = NotCalled
    /\ IdleLoop /\ IdleRig /\ IdleFiles /\ IdlePool /\ IdleModel /\ IdleCollect

FilterStack ==
    /\ fn = "filter_images_for_intrinsics" /\ pc = "std_pass"
    /\ DOMAIN targets = {}
    /\ pc' = "done" /\ status' = "raised" /\ err' = "ValueError"
    /\ UNCHANGED <<restVars, fn, filterVars, loopVars, rigVars, fileVars>>

FilterStdPass ==
    /\ fn = "filter_images_for_intrinsics" /\ pc = "std_pass"
    /\ DOMAIN targets # {}
    /\ afterStd' = StdSurvivors(targets, p_std)
    /\ IF afterStd' = {}
       THEN pc' = "done" /\ status' = "returned" /\ filterResult' = NoneResult
       ELSE pc' = "dist_pass" /\ UNCHANGED <<status, filterResult>>
    /\ UNCHANGED <<restVars, fn, err, targets, sims, p_std, p_dist, loopVars, rigVars, fileVars>>

FilterDistPass ==
    /\ fn = "filter_images_for_intrinsics" /\ pc = "dist_pass"
    /\ LET S2 == DistSurvivors(sims, afterStd, p_dist)
       IN  filterResult' = IF S2 = {} THEN NoneResult ELSE DictResult(S2)
    /\ pc' = "done" /\ status' = "returned"
    /\ UNCHANGED <<restVars, fn, err, targets, sims, p_std, p_dist, afterStd,
                   loopVars, rigVars, fileVars>>

NextFilter == FilterStack \/ FilterStdPass \/ FilterDistPass

SpecFilter == InitFilter /\ [][NextFilter]_vars

----------------------------------------------------------------------------
(* What load_targets followed by filter_images_for_intrinsics can return   *)
(* for a camera: every target file over the camera's image folder, with a  *)
(* one-coordinate grid, is filtered.                                       *)

RigUris(cam) == {Uri(cam, f) : f \in Frames}

FilterOutcomesOf(cam, p1, p2) ==
    UNION {{FilterImages(t, s, p1, p2) : s \in [DOMAIN t -> SimVals]} :
           t \in TargetsOver(RigUris(cam), {1})}

\* the same files under another camera's folder give the same result there
InFolder(out, cam) ==
    [ret |-> out.ret, keys |-> {Uri(cam, Basename(u)) : u \in out.keys}]

FilterOutcomesAnyFolder ==
    [p1 \in CalibPercentiles, p2 \in CalibPercentiles |->
        FilterOutcomesOf("cam1", p1, p2)]

FilterOutcomes(cam, p1, p2) ==
    {InFolder(out, cam) : out \in FilterOutcomesAnyFolder[p1, p2]}

----------------------------------------------------------------------------
(* The batch-averaged solve loop shared by both calibrators *)

\* np.random.randint(n, size=batch_size) raises ValueError for n <= 0
RandintNeverRaises(n) == FALSE
RandintRaises(n) == n <= 0

\* "solver" is what cv2.calibrateCamera / cv2.stereoCalibrate does on the batch
AfterSolve(ok) == IF ok THEN "next" ELSE "raise"

----------------------------------------------------------------------------
(* calibrate_intrinsics *)

InitIntrinsics ==
    /\ fn = "calibrate_intrinsics"
    /\ pc = "load_filter"
    /\ status = "running"
    /\ err = "none"
    /\ IdleFilter
    /\ p_std \in CalibPercentiles
    /\ p_dist \in CalibPercentiles
    /\ filterResult = NotCalled
    /\ optim_iterations \in 0..MaxIter
    /\ iter = 0 /\ attempts = 0
    /\ cameras = <<"cam1">>
    /\ camIdx = 0 /\ filteredBy = <<>>
    /\ all_frames = [f \in Frames |-> {}] /\ all_valid_frames = {}
    /\ mainIdx = 0 /\ otherIdx = 0 /\ extrinsic_output = NoOutput
    /\ IdleFiles /\ IdlePool /\ IdleModel /\ IdleCollect

\* lines 213-218: load, filter, stack the surviving targets
IntrLoadFilter ==
    /\ fn = "calibrate_intrinsics" /\ pc = "load_filter"
    /\ \E out \in FilterOutcomes(cameras[1], p_std, p_dist) :
         /\ filterResult' = out
         /\ CASE out.ret = "ValueError" ->
                   pc' = "done" /\ status' = "raised" /\ err' = "ValueError"
              [] out.ret = "None" ->
                   pc' = "done" /\ status' = "raised" /\ err' = "AttributeError"
              [] OTHER ->
                   pc' = "iterate" /\ UNCHANGED <<status, err>>
    /\ UNCHANGED <<restVars, fn, targets, sims, p_std, p_dist, afterStd, loopVars,
                   rigVars, fileVars>>

\* lines 237-254: one round of the averaging loop
IntrIterate ==
    /\ fn = "calibrate_intrinsics" /\ pc = "iterate"
    /\ attempts < optim_iterations
    /\ attempts' = attempts + 1
    /\ IF RandintRaises(Cardinality(filterResult.keys))
       THEN pc' = "done" /\ status' = "raised" /\ err' = "ValueError"
            /\ UNCHANGED iter
       ELSE \E ok \in BOOLEAN :
              IF AfterSolve(ok) = "next"
              THEN iter' = (IF ok THEN iter + 1 ELSE iter)
                   /\ UNCHANGED <<pc, status, err>>
              ELSE pc' = "done" /\ status' = "raised" /\ err' = "cv2.error"
                   /\ UNCHANGED iter
    /\ UNCHANGED <<restVars, fn, filterVars, optim_iterations, rigVars, fileVars>>

\* lines 256-267: average and save
IntrAverageSave ==
    /\ fn = "calibrate_intrinsics" /\ pc = "iterate"
    /\ attempts = optim_iterations
    /\ IF optim_iterations = 0
       THEN pc' = "done" /\ status' = "raised" /\ err' = "ZeroDivisionError"
            /\ UNCHANGED intrinsicsFiles
       ELSE pc' = "done" /\ status' = "returned" /\ UNCHANGED err
            /\ intrinsicsFiles' = intrinsicsFiles \cup {cameras[1]}
    /\ UNCHANGED <<restVars, fn, filterVars, loopVars, rigVars, extrinsicsFile>>

NextIntrinsics == IntrLoadFilter \/ IntrIterate \/ IntrAverageSave

----------------------------------------------------------------------------
(* calibrate_extrinsics *)

CamSet(cams) == {cams[i] : i \in DOMAIN cams}
OtherCams(cams, main) == SelectSeq(cams, LAMBDA c : c # main)

InitExtrinsics ==
    /\ fn = "calibrate_extrinsics"
    /\ pc = "load_intrinsics"
    /\ status = "running"
    /\ err = "none"
    /\ IdleFilter
    /\ p_std \in CalibPercentiles
    /\ p_dist \in CalibPercentiles
    /\ filterResult = NotCalled
    /\ optim_iterations \in 0..MaxIter
    /\ iter = 0 /\ attempts = 0
    /\ cameras \in Rigs
    /\ camIdx = 1
    /\ filteredBy = <<>>
    /\ all_frames = [f \in Frames |-> {}]
    /\ all_valid_frames = {}
    /\ mainIdx = 1 /\ otherIdx = 1
    /\ extrinsic_output = NoOutput
    /\ intrinsicsFiles \in SUBSET CamSet(cameras)
    /\ extrinsicsFile = NoFile
    /\ IdlePool /\ IdleModel /\ IdleCollect

\* lines 284-288
ExtrLoadIntrinsics ==
    /\ fn = "calibrate_extrinsics" /\ pc = "load_intrinsics"
    /\ IF CamSet(cameras) \subseteq intrinsicsFiles
       THEN pc' = "load_targets" /\ UNCHANGED <<status, err>>
       ELSE pc' = "done" /\ status' = "raised" /\ err' = "AssertionError"
    /\ UNCHANGED <<restVars, fn, filterVars, loopVars, rigVars, fileVars>>

\* lines 292-306: one camera of the loading loop
ExtrLoadTargets ==
    /\ fn = "calibrate_extrinsics" /\ pc = "load_targets"
    /\ camIdx <= Len(cameras)
    /\ LET cam == cameras[camIdx] IN
       \E out \in FilterOutcomes(cam, p_std, p_dist) :
         /\ filterResult' = out
         /\ filteredBy' = Append(filteredBy, out)
         /\ CASE out.ret = "ValueError" ->
                   /\ pc' = "done" /\ status' = "raised" /\ err' = "ValueError"
                   /\ UNCHANGED <<camIdx, all_frames>>
              [] out.ret = "None" ->
                   /\ pc' = "done" /\ status' = "raised" /\ err' = "TypeError"
                   /\ UNCHANGED <<camIdx, all_frames>>
              [] OTHER ->
                   /\ all_frames' =
                        [f \in Frames |->
                           IF \E u \in out.keys : Basename(u) = f
                           THEN all_frames[f] \cup {cam}
                           ELSE all_frames[f]]
                   /\ camIdx' = camIdx + 1
                   /\ UNCHANGED <<pc, status, err>>
    /\ UNCHANGED <<restVars, fn, targets, sims, p_std, p_dist, afterStd, loopVars,
                   cameras, all_valid_frames, mainIdx, otherIdx,
                   extrinsic_output, fileVars>>

\* line 310: the frame is kept when its entry holds one observation per camera
SeenBySome(entry, cams) == Cardinality(entry) >= 1
SeenByAll(entry, cams) == Cardinality(entry) = Len(cams)

\* lines 308-320
ExtrValidFrames ==
    /\ fn = "calibrate_extrinsics" /\ pc = "load_targets"
    /\ camIdx > Len(cameras)
    /\ all_valid_frames' =
         {f \in Frames : all_frames[f] # {} /\ SeenByAll(all_frames[f], cameras)}
    /\ pc' = "main_cam"
    /\ UNCHANGED <<restVars, fn, status, err, filterVars, loopVars, cameras, camIdx,
                   filteredBy, all_frames, mainIdx, otherIdx, extrinsic_output,
                   fileVars>>

\* lines 324-331: the next main camera gets its (empty) row
ExtrMainCam ==
    /\ fn = "calibrate_extrinsics" /\ pc = "main_cam"
    /\ mainIdx <= Len(cameras)
    /\ extrinsic_output' = (cameras[mainIdx] :> <<>>) @@ extrinsic_output
    /\ otherIdx' = 1
    /\ iter' = 0 /\ attempts' = 0
    /\ pc' = "pair"
    /\ UNCHANGED <<restVars, fn, status, err, filterVars, optim_iterations, cameras,
                   camIdx, filteredBy, all_frames, all_valid_frames, mainIdx,
                   fileVars>>

\* line 331: the cameras paired with main_cam
PairedCams(cams, main) == OtherCams(cams, main)

\* lines 339-365: one round of the averaging loop of the current pair
ExtrIterate ==
    /\ fn = "calibrate_extrinsics" /\ pc = "pair"
    /\ otherIdx <= Len(PairedCams(cameras, cameras[mainIdx]))
    /\ attempts < optim_iterations
    /\ attempts' = attempts + 1
    /\ IF RandintRaises(Cardinality(all_valid_frames))
       THEN pc' = "done" /\ status' = "raised" /\ err' = "ValueError"
            /\ UNCHANGED iter
       ELSE \E ok \in BOOLEAN :
              IF AfterSolve(ok) = "next"
              THEN iter' = (IF ok THEN iter + 1 ELSE iter)
                   /\ UNCHANGED <<pc, status, err>>
              ELSE pc' = "done" /\ status' = "raised" /\ err' = "cv2.error"
                   /\ UNCHANGED iter
    /\ UNCHANGED <<restVars, fn, filterVars, optim_iterations, rigVars, fileVars>>

\* lines 367-380: average the rounds and store the pair's entry
ExtrFinishPair ==
    /\ fn = "calibrate_extrinsics" /\ pc = "pair"
    /\ otherIdx <= Len(PairedCams(cameras, cameras[mainIdx]))
    /\ attempts = optim_iterations
    /\ IF optim_iterations = 0
       THEN pc' = "done" /\ status' = "raised" /\ err' = "ZeroDivisionError"
            /\ UNCHANGED <<extrinsic_output, otherIdx, iter, attempts>>
       ELSE LET main == cameras[mainIdx]
                cam  == PairedCams(cameras, main)[otherIdx]
            IN  /\ extrinsic_output' =
                     [extrinsic_output EXCEPT ![main] = (cam :> "Rt") @@ @]
                /\ otherIdx' = otherIdx + 1
                /\ iter' = 0 /\ attempts' = 0
                /\ UNCHANGED <<pc, status, err>>
    /\ UNCHANGED <<restVars, fn, filterVars, optim_iterations, cameras, camIdx,
                   filteredBy, all_frames, all_valid_frames, mainIdx, fileVars>>

\* the inner loop is exhausted: back to the main_cam loop
ExtrNextMain ==
    /\ fn = "calibrate_extrinsics" /\ pc = "pair"
    /\ otherIdx > Len(PairedCams(cameras, cameras[mainIdx]))
    /\ mainIdx' = mainIdx + 1
    /\ pc' = "main_cam"
    /\ UNCHANGED <<restVars, fn, status, err, filterVars, loopVars, cameras, camIdx,
                   filteredBy, all_frames, all_valid_frames, otherIdx,
                   extrinsic_output, fileVars>>

\* lines 382-383
ExtrWrite ==
    /\ fn = "calibrate_extrinsics" /\ pc = "main_cam"
    /\ mainIdx > Len(cameras)
    /\ extrinsicsFile' = [written |-> TRUE, table |-> extrinsic_output]
    /\ pc' = "done" /\ status' = "returned"
    /\ UNCHANGED <<restVars, fn, err, filterVars, loopVars, rigVars, intrinsicsFiles>>

NextExtrinsics ==
    \/ ExtrLoadIntrinsics \/ ExtrLoadTargets \/ ExtrValidFrames
    \/ ExtrMainCam \/ ExtrIterate \/ ExtrFinishPair \/ ExtrNextMain
    \/ ExtrWrite

InitCalib == InitIntrinsics \/ InitExtrinsics
NextCalib == NextIntrinsics \/ NextExtrinsics
SpecCalib == InitCalib /\ [][NextCalib]_vars

----------------------------------------------------------------------------
(* find_all_calibration_targets: the main thread and the pool's workers *)

Workers(n) == 1..n
Idle == 0
Exited == -1
DetectionOutcomes == {"corners", "None", "raise"}

InitPool ==
    /\ fn = "find_all_calibration_targets"
    /\ pc = "submit"
    /\ status = "running"
    /\ err = "none"
    /\ IdleFilter /\ p_std = 0 /\ p_dist = 0 /\ filterResult = NotCalled
    /\ IdleLoop /\ IdleRig /\ IdleFiles /\ IdleModel /\ IdleCollect
    /\ \E n \in 0..MaxTasks : image_uris = [i \in 1..n |-> Uri("cam1", i)]
    /\ detection \in [{image_uris[i] : i \in DOMAIN image_uris} -> DetectionOutcomes]
    /\ writeFails \in BOOLEAN
    /\ process_results = <<>>
    /\ \E n \in 1..MaxWorkers : workers = [w \in Workers(n) |-> Idle]
    /\ poolState = "RUN"
    /\ getIdx = 1 /\ waitIdx = 1
    /\ results = <<>>
    /\ completed = <<>>
    /\ targetsFile = NoFile

\* check_and_get_target_corners on one image
CheckAndGetTargetCorners(uri) ==
    IF detection[uri] = "raise"
    THEN [ok |-> FALSE, value |-> "cv2.error"]
    ELSE [ok |-> TRUE, value |-> <<uri, detection[uri]>>]

\* lines 109-111: an exception inside the try block runs the finally block
ExceptPropagatesAtOnce == "done"
ExceptTarget == "close"

RaiseInTry(e) ==
    /\ err' = e
    /\ pc' = ExceptTarget
    /\ status' = (IF ExceptTarget = "done" THEN "raised" ELSE status)

\* lines 100-102: submit one task
PoolSubmit ==
    /\ UNCHANGED collectVars
    /\ fn = "find_all_calibration_targets"
    /\ UNCHANGED completed /\ pc = "submit"
    /\ Len(process_results) < Len(image_uris)
    /\ process_results' =
         Append(process_results,
                [uri |-> image_uris[Len(process_results) + 1],
                 state |-> "queued", ok |-> TRUE, value |-> <<>>])
    /\ UNCHANGED <<fn, pc, status, err, filterVars, loopVars, rigVars, fileVars,
                   image_uris, detection, writeFails, workers, poolState,
                   getIdx, waitIdx, results, targetsFile, modelVars>>

\* line 104: the comprehension reads the AsyncResults in submission order
ResultAtReversed(k) == process_results[Len(process_results) + 1 - k]
ResultAt(k) == process_results[k]

\* line 104: result.get() of the next task, blocking until it is ready
PoolGet ==
    /\ UNCHANGED collectVars
    /\ fn = "find_all_calibration_targets"
    /\ UNCHANGED completed
    /\ \/ pc = "get"
       \/ pc = "submit" /\ Len(process_results) = Len(image_uris)
    /\ getIdx <= Len(process_results)
    /\ ResultAt(getIdx).state = "ready"
    /\ IF ResultAt(getIdx).ok
       THEN /\ results' = Append(results, ResultAt(getIdx).value)
            /\ getIdx' = getIdx + 1
            /\ pc' = "get"
            /\ UNCHANGED <<status, err>>
       ELSE /\ RaiseInTry(ResultAt(getIdx).value)
            /\ UNCHANGED <<results, getIdx>>
    /\ UNCHANGED <<fn, filterVars, loopVars, rigVars, fileVars, image_uris,
                   detection, writeFails, process_results, workers, poolState,
                   waitIdx, targetsFile, modelVars>>

\* lines 106-107: write the results file
PoolWrite ==
    /\ UNCHANGED collectVars
    /\ fn = "find_all_calibration_targets"
    /\ UNCHANGED completed
    /\ \/ pc = "get"
       \/ pc = "submit" /\ Len(process_results) = Len(image_uris)
    /\ getIdx > Len(process_results)
    /\ IF writeFails
       THEN RaiseInTry("OSError") /\ UNCHANGED targetsFile
       ELSE /\ targetsFile' = [written |-> TRUE, table |-> results]
            /\ pc' = "close"
            /\ UNCHANGED <<status, err>>
    /\ UNCHANGED <<fn, filterVars, loopVars, rigVars, fileVars, image_uris,
                   detection, writeFails, process_results, workers, poolState,
                   getIdx, waitIdx, results, modelVars>>

\* line 112
PoolClose ==
    /\ UNCHANGED collectVars
    /\ fn = "find_all_calibration_targets"
    /\ UNCHANGED completed /\ pc = "close"
    /\ poolState' = "CLOSE"
    /\ pc' = "wait"
    /\ UNCHANGED <<fn, status, err, filterVars, loopVars, rigVars, fileVars,
                   image_uris, detection, writeFails, process_results, workers,
                   getIdx, waitIdx, results, targetsFile, modelVars>>

\* lines 113-114: result.wait() of the next task, blocking until it is ready
PoolWait ==
    /\ UNCHANGED collectVars
    /\ fn = "find_all_calibration_targets"
    /\ UNCHANGED completed /\ pc = "wait"
    /\ waitIdx <= Len(process_results)
    /\ process_results[waitIdx].state = "ready"
    /\ waitIdx' = waitIdx + 1
    /\ UNCHANGED <<fn, pc, status, err, filterVars, loopVars, rigVars, fileVars,
                   image_uris, detection, writeFails, process_results, workers,
                   poolState, getIdx, results, targetsFile, modelVars>>

\* line 115: join() returns when every worker process has exited; the
\* function then returns, or re-raises the exception of the try block
PoolJoin ==
    /\ UNCHANGED collectVars
    /\ fn = "find_all_calibration_targets"
    /\ UNCHANGED completed /\ pc = "wait"
    /\ waitIdx > Len(process_results)
    /\ \A w \in DOMAIN workers : workers[w] = Exited
    /\ poolState' = "joined"
    /\ pc' = "done"
    /\ status' = (IF err = "none" THEN "returned" ELSE "raised")
    /\ UNCHANGED <<fn, err, filterVars, loopVars, rigVars, fileVars,
                   image_uris, detection, writeFails, process_results, workers,
                   getIdx, waitIdx, results, targetsFile, modelVars>>

Queued == {k \in DOMAIN process_results : process_results[k].state = "queued"}

\* an idle worker takes the oldest queued task
WorkerTake(w) ==
    /\ UNCHANGED collectVars
    /\ fn = "find_all_calibration_targets"
    /\ UNCHANGED completed
    /\ workers[w] = Idle
    /\ Queued # {}
    /\ LET k == CHOOSE j \in Queued : \A i \in Queued : j <= i
       IN  /\ workers' = [workers EXCEPT ![w] = k]
           /\ process_results' = [process_results EXCEPT ![k].state = "running"]
    /\ UNCHANGED <<fn, pc, status, err, filterVars, loopVars, rigVars, fileVars,
                   image_uris, detection, writeFails, poolState, getIdx,
                   waitIdx, results, targetsFile, modelVars>>

\* the worker finishes its task: the AsyncResult becomes ready
WorkerFinish(w) ==
    /\ UNCHANGED collectVars
    /\ fn = "find_all_calibration_targets"
    /\ workers[w] \in DOMAIN process_results
    /\ LET k == workers[w]
           r == CheckAndGetTargetCorners(process_results[k].uri)
       IN  process_results' =
             [process_results EXCEPT ![k] =
                [uri |-> @.uri, state |-> "ready", ok |-> r.ok, value |-> r.value]]
    /\ workers' = [workers EXCEPT ![w] = Idle]
    /\ completed' = Append(completed, workers[w])
    /\ UNCHANGED <<fn, pc, status, err, filterVars, loopVars, rigVars, fileVars,
                   image_uris, detection, writeFails, poolState, getIdx,
                   waitIdx, results, targetsFile, modelVars>>

\* a closed pool whose queue is drained lets its idle workers exit
WorkerExit(w) ==
    /\ UNCHANGED collectVars
    /\ fn = "find_all_calibration_targets"
    /\ UNCHANGED completed
    /\ workers[w] = Idle
    /\ poolState = "CLOSE"
    /\ Queued = {}
    /\ workers' = [workers EXCEPT ![w] = Exited]
    /\ UNCHANGED <<fn, pc, status, err, filterVars, loopVars, rigVars, fileVars,
                   image_uris, detection, writeFails, process_results,
                   poolState, getIdx, waitIdx, results, targetsFile, modelVars>>

NextPool ==
    \/ PoolSubmit \/ PoolGet \/ PoolWrite \/ PoolClose \/ PoolWait \/ PoolJoin
    \/ \E w \in DOMAIN workers : WorkerTake(w)
    \/ \E w \in DOMAIN workers : WorkerFinish(w)
    \/ \E w \in DOMAIN workers : WorkerExit(w)

SpecPool == InitPool /\ [][NextPool]_vars

----------------------------------------------------------------------------
(* The camera models: CameraTransformer (src/core.py) and CameraModel      *)
(* (src/calibrate_camera_system/core.py).  A transform is "I" (identity    *)
(* rotation, zero translation) or "Rt" (any other); a projection matrix    *)
(* K @ [R | t] is kept as the pair of the camera whose calibration matrix  *)
(* K is and of the transform.                                              *)

Projection(k, rt) == [K |-> k, Rt |-> rt]

ExtrinsicRows == {<<>>} \cup UNION {[S -> Transforms] : S \in SUBSET ModelCams}
ExtrinsicTables == UNION {[R -> ExtrinsicRows] : R \in SUBSET ModelCams}

\* CameraModel.__init__ lines 97-103 builds a row only for an entry's camera_from
TablesOfEntries == {t \in ExtrinsicTables : \A r \in DOMAIN t : DOMAIN t[r] # {}}

InitModelCommon ==
    /\ pc = "construct"
    /\ status = "running"
    /\ err = "none"
    /\ IdleFilter /\ p_std = 0 /\ p_dist = 0 /\ filterResult = NotCalled
    /\ IdleLoop /\ IdlePool /\ IdleModel /\ IdleCollect
    /\ camIdx = 0 /\ filteredBy = <<>>
    /\ all_frames = [f \in Frames |-> {}] /\ all_valid_frames = {}
    /\ mainIdx = 0 /\ otherIdx = 0 /\ extrinsic_output = NoOutput
    /\ intrinsicsFiles \in SUBSET ModelCams

InitTransformer ==
    /\ fn = "CameraTransformer"
    /\ InitModelCommon
    /\ cameras \in {<<"cam1">>, <<"cam1", "cam2">>}
    /\ extrinsicsFile \in
         {NoFile} \cup {[written |-> TRUE, table |-> t] : t \in ExtrinsicTables}

\* the CameraModelInformation the model is built from
InitCameraModel ==
    /\ fn = "CameraModel"
    /\ InitModelCommon
    /\ cameras = <<>>
    /\ extrinsicsFile \in {[written |-> TRUE, table |-> t] : t \in TablesOfEntries}

\* lines 393-394, 398: the first camera whose artifacts are missing
MissingArtifact(cam) ==
    \/ cam \notin intrinsicsFiles
    \/ cam \notin DOMAIN extrinsicsFile.table
FirstMissing(cams) ==
    CHOOSE i \in DOMAIN cams :
        /\ MissingArtifact(cams[i])
        /\ \A j \in 1..(i - 1) : ~MissingArtifact(cams[j])

\* line 399: the self-pair is overwritten by the identity transform
SelfPairTransform(row, cam) == "I"

\* lines 398-399: the row of projection matrices of one camera
ProjectionRow(cam, row) ==
    [c \in DOMAIN row \cup {cam} |->
        IF c = cam THEN Projection(cam, SelfPairTransform(row, cam))
        ELSE Projection(cam, row[c])]

\* CameraTransformer.__init__, lines 387-399
TransformerInit ==
    /\ UNCHANGED collectVars
    /\ fn = "CameraTransformer" /\ pc = "construct"
    /\ IF ~extrinsicsFile.written
       THEN /\ pc' = "done" /\ status' = "raised" /\ err' = "FileNotFoundError"
            /\ UNCHANGED modelVars
       ELSE IF \E i \in DOMAIN cameras : MissingArtifact(cameras[i])
       THEN /\ pc' = "done" /\ status' = "raised"
            /\ err' = (IF cameras[FirstMissing(cameras)] \notin intrinsicsFiles
                       THEN "AssertionError" ELSE "KeyError")
            /\ UNCHANGED modelVars
       ELSE /\ pc' = "constructed"
            /\ m_extrinsics' = extrinsicsFile.table
            /\ projection_matrices' =
                 [cam \in CamSet(cameras) |->
                     ProjectionRow(cam, extrinsicsFile.table[cam])]
            /\ UNCHANGED <<status, err, m_intrinsics, call>>
    /\ UNCHANGED <<fn, filterVars, loopVars, rigVars, fileVars, poolVars>>

\* lines 407-427: the rows of the equation system come from
\* projection_matrices[main_cam_uuid][cam_uuid] of every observing camera
TriangulatePoint(obs, main) ==
    IF obs = {} THEN [outcome |-> "ValueError", used |-> <<>>]
    ELSE IF main \notin DOMAIN projection_matrices
            \/ \E c \in obs : c \notin DOMAIN projection_matrices[main]
    THEN [outcome |-> "KeyError", used |-> <<>>]
    ELSE [outcome |-> "returned",
          used |-> [c \in obs |-> projection_matrices[main][c]]]

\* CameraTransformer.triangulate_point
TransformerTriangulatePoint ==
    /\ UNCHANGED collectVars
    /\ fn = "CameraTransformer" /\ pc = "constructed"
    /\ \E obs \in SUBSET ModelCams, main \in ModelCams :
         LET r == TriangulatePoint(obs, main)
         IN  call' = [op |-> "triangulate_point", obs |-> obs, main |-> main,
                      outcome |-> r.outcome, used |-> r.used]
    /\ UNCHANGED <<fn, pc, status, err, filterVars, loopVars, rigVars,
                   fileVars, poolVars, m_intrinsics, m_extrinsics,
                   projection_matrices>>

\* CameraTransformer.DLT, lines 429-456
TransformerDLT ==
    /\ UNCHANGED collectVars
    /\ fn = "CameraTransformer" /\ pc = "constructed"
    /\ \E obs \in SUBSET ModelCams, main \in ModelCams, num_points \in 0..1 :
         LET r == IF Cardinality(obs) < 2
                  THEN [outcome |-> "AssertionError", used |-> <<>>]
                  ELSE IF num_points = 0
                  THEN [outcome |-> "ValueError", used |-> <<>>]
                  ELSE TriangulatePoint(obs, main)
         IN  call' = [op |-> "DLT", obs |-> obs, main |-> main,
                      outcome |-> r.outcome, used |-> r.used]
    /\ UNCHANGED <<fn, pc, status, err, filterVars, loopVars, rigVars,
                   fileVars, poolVars, m_intrinsics, m_extrinsics,
                   projection_matrices>>

\* CameraModel.__init__, lines 92-103: the two dictionaries are built
CameraModelInit ==
    /\ UNCHANGED collectVars
    /\ fn = "CameraModel" /\ pc = "construct"
    /\ m_intrinsics' = intrinsicsFiles
    /\ m_extrinsics' = extrinsicsFile.table
    /\ pc' = "constructed"
    /\ UNCHANGED <<fn, status, err, filterVars, loopVars, rigVars, fileVars,
                   poolVars, projection_matrices, call>>

HasExtrinsic(a, b) == a \in DOMAIN m_extrinsics /\ b \in DOMAIN m_extrinsics[a]

\* CameraModel.triangulate_points, lines 135-159
ModelTriangulatePoints ==
    /\ UNCHANGED collectVars
    /\ fn = "CameraModel" /\ pc = "constructed"
    /\ \E from \in ModelCams, to \in ModelCams :
         call' =
           IF from \notin m_intrinsics \/ to \notin m_intrinsics
              \/ ~HasExtrinsic(from, from) \/ ~HasExtrinsic(from, to)
           THEN [op |-> "triangulate_points", obs |-> {from, to}, main |-> from,
                 outcome |-> "KeyError", used |-> <<>>]
           ELSE [op |-> "triangulate_points", obs |-> {from, to}, main |-> from,
                 outcome |-> "returned",
                 used |-> <<Projection(from, m_extrinsics[from][from]),
                            Projection(to, m_extrinsics[from][to])>>]
    /\ UNCHANGED <<fn, pc, status, err, filterVars, loopVars, rigVars,
                   fileVars, poolVars, m_intrinsics, m_extrinsics,
                   projection_matrices>>

\* CameraModel.project_points_to_view, lines 161-171
ModelProjectPoints ==
    /\ UNCHANGED collectVars
    /\ fn = "CameraModel" /\ pc = "constructed"
    /\ \E from \in ModelCams, to \in ModelCams :
         call' =
           IF ~HasExtrinsic(from, to) \/ to \notin m_intrinsics
           THEN [op |-> "project_points_to_view", obs |-> {from, to},
                 main |-> from, outcome |-> "KeyError", used |-> <<>>]
           ELSE [op |-> "project_points_to_view", obs |-> {from, to},
                 main |-> from, outcome |-> "returned",
                 used |-> <<Projection(to, m_extrinsics[from][to])>>]
    /\ UNCHANGED <<fn, pc, status, err, filterVars, loopVars, rigVars,
                   fileVars, poolVars, m_intrinsics, m_extrinsics,
                   projection_matrices>>

InitModel == InitTransformer \/ InitCameraModel
NextModel ==
    \/ TransformerInit \/ TransformerTriangulatePoint \/ TransformerDLT
    \/ CameraModelInit \/ ModelTriangulatePoints \/ ModelProjectPoints
SpecModel == InitModel /\ [][NextModel]_vars

----------------------------------------------------------------------------
(* ImageManager.collect_images (src/calibrate_camera_system/core.py) *)

InitCollect ==
    /\ fn = "collect_images"
    /\ pc = "start"
    /\ status = "running"
    /\ err = "none"
    /\ IdleFilter /\ p_std = 0 /\ p_dist = 0 /\ filterResult = NotCalled
    /\ IdleLoop /\ IdleRig /\ IdleFiles /\ IdlePool /\ IdleModel
    /\ num_images_to_collect \in 0..MaxImages
    /\ max_error_frames \in 0..MaxErrorFrames
    /\ collected_frames = 0 /\ error_frames = 0
    /\ saveLog = <<>> /\ started = {} /\ stopped = <<>>

\* lines 61-65: start the saver, then the sender; either start may raise
CollectStart ==
    /\ fn = "collect_images" /\ pc = "start"
    /\ \E outcome \in {"ok", "saver raises", "sender raises"} :
         /\ started' = (CASE outcome = "ok" -> {"image_saver", "multi_stream_sender"}
                          [] outcome = "sender raises" -> {"image_saver"}
                          [] OTHER -> {})
         /\ IF outcome = "ok"
            THEN pc' = "loop" /\ UNCHANGED err
            ELSE pc' = "stop_sender" /\ err' = "Exception"
    /\ collected_frames' = 0 /\ error_frames' = 0
    /\ UNCHANGED <<fn, status, filterVars, loopVars, rigVars, fileVars, poolVars,
                   modelVars, num_images_to_collect, max_error_frames, saveLog,
                   stopped>>

\* line 80: the failure counter after a saved frame
ErrorFramesKept(e) == e
ErrorFramesAfterSave(e) == 0

\* lines 66-80: one round of the loop; save_image returns True or False, or raises
CollectSaveImage ==
    /\ fn = "collect_images" /\ pc = "loop"
    /\ collected_frames < num_images_to_collect
    /\ \E correct \in {"True", "False", "raise"} :
         CASE correct = "raise" ->
                /\ pc' = "stop_sender" /\ err' = "Exception"
                /\ UNCHANGED <<collected_frames, error_frames, saveLog>>
           [] correct = "False" ->
                /\ saveLog' = Append(saveLog, FALSE)
                /\ error_frames' = error_frames + 1
                /\ pc' = (IF error_frames' > max_error_frames
                          THEN "stop_sender" ELSE "loop")
                /\ UNCHANGED <<collected_frames, err>>
           [] OTHER ->
                /\ saveLog' = Append(saveLog, TRUE)
                /\ collected_frames' = collected_frames + 1
                /\ error_frames' = ErrorFramesAfterSave(error_frames)
                /\ UNCHANGED <<pc, err>>
    /\ UNCHANGED <<fn, status, filterVars, loopVars, rigVars, fileVars, poolVars,
                   modelVars, num_images_to_collect, max_error_frames, started,
                   stopped>>

\* line 66: the loop condition is false
CollectLoopEnd ==
    /\ fn = "collect_images" /\ pc = "loop"
    /\ ~(collected_frames < num_images_to_collect)
    /\ pc' = "stop_sender"
    /\ UNCHANGED <<fn, status, err, filterVars, loopVars, rigVars, fileVars,
                   poolVars, modelVars, collectVars>>

\* line 85
CollectStopSender ==
    /\ fn = "collect_images" /\ pc = "stop_sender"
    /\ stopped' = Append(stopped, "multi_stream_sender")
    /\ pc' = "stop_saver"
    /\ UNCHANGED <<fn, status, err, filterVars, loopVars, rigVars, fileVars,
                   poolVars, modelVars, num_images_to_collect, max_error_frames,
                   collected_frames, error_frames, saveLog, started>>

\* line 86, then the function returns or re-raises (lines 82-83)
CollectStopSaver ==
    /\ fn = "collect_images" /\ pc = "stop_saver"
    /\ stopped' = Append(stopped, "image_saver")
    /\ pc' = "done"
    /\ status' = (IF err = "none" THEN "returned" ELSE "raised")
    /\ UNCHANGED <<fn, err, filterVars, loopVars, rigVars, fileVars,
                   poolVars, modelVars, num_images_to_collect, max_error_frames,
                   collected_frames, error_frames, saveLog, started>>

NextCollect ==
    \/ CollectStart \/ CollectSaveImage \/ CollectLoopEnd
    \/ CollectStopSender \/ CollectStopSaver

\* the interpreter keeps executing the function: a step that can be taken is taken
SpecCollect == InitCollect /\ [][NextCollect]_vars /\ WF_vars(NextCollect)

----------------------------------------------------------------------------
(* Claims about calibrate_intrinsics and calibrate_extrinsics (SpecCalib) *)

FramesOf(out) == {Basename(u) : u \in out.keys}
ValidFramesBuilt ==
    /\ fn = "calibrate_extrinsics"
    /\ camIdx > Len(cameras)
    /\ pc # "load_targets"
SeenByEveryCamera(f) == \A i \in DOMAIN filteredBy : f \in FramesOf(filteredBy[i])

\* C1: once calibrate_extrinsics has built its frame table, a frame id is
\* kept for stereo calibration if and only if it is in the filtered target
\* set of every camera of the rig.
C1_CommonFramesOnly ==
    ValidFramesBuilt =>
        all_valid_frames = {f \in Frames : SeenByEveryCamera(f)}

\* C1 witness: cameras with frames {A,B,C} and {B,C,D} leave {B,C}.
C1_Witness ==
    /\ ValidFramesBuilt
    /\ cameras = <<"cam1", "cam2">>
    /\ FramesOf(filteredBy[1]) = {"A", "B", "C"}
    /\ FramesOf(filteredBy[2]) = {"B", "C", "D"}
    /\ all_valid_frames = {"B", "C"}

NoCommonFrame ==
    /\ fn = "calibrate_extrinsics"
    /\ Len(filteredBy) >= 1
    /\ \/ \E i \in DOMAIN filteredBy : filteredBy[i].ret # "dict"
       \/ /\ Len(filteredBy) = Len(cameras)
          /\ {f \in Frames : SeenByEveryCamera(f)} = {}

\* C2: when no frame is common to all cameras after filtering,
\* calibrate_extrinsics never returns normally and never writes
\* calibration_extrinsics.json: it keeps running until it ends by raising.
C2_NoCommonFrameIsFatal ==
    NoCommonFrame =>
        /\ extrinsicsFile = NoFile
        /\ status # "returned"
        /\ (status = "running" => ENABLED NextExtrinsics)
        /\ (pc = "done" => status = "raised")

\* C2 witness: two cameras whose filtered sets are disjoint; the run raised.
C2_Witness ==
    /\ fn = "calibrate_extrinsics"
    /\ Len(cameras) = 2 /\ Len(filteredBy) = 2
    /\ \A i \in DOMAIN filteredBy : filteredBy[i].ret = "dict"
    /\ FramesOf(filteredBy[1]) \cap FramesOf(filteredBy[2]) = {}
    /\ status = "raised" /\ extrinsicsFile = NoFile

\* C3: when the filter reports "no valid targets" (returns None), the
\* calling calibration runs no solve and does not end by an exception.
C3_NoTargetsIsNotACrash ==
    filterResult.ret = "None" => (attempts = 0 /\ status # "raised")

\* C4: a calibration run ends by a solver failure only if every one of the
\* optim_iterations rounds was tried and none succeeded.
C4_SolverFailureIsSkipped ==
    err = "cv2.error" => (attempts = optim_iterations /\ iter = 0)

\* C7: after calibrate_extrinsics returns, the persisted table holds an
\* entry for every ordered pair of cameras of the rig, self-pairs included.
C7_FullPairTable ==
    (fn = "calibrate_extrinsics" /\ status = "returned") =>
        /\ extrinsicsFile.written
        /\ \A a \in CamSet(cameras), b \in CamSet(cameras) :
              /\ a \in DOMAIN extrinsicsFile.table
              /\ b \in DOMAIN extrinsicsFile.table[a]

----------------------------------------------------------------------------
(* Claims about filter_images_for_intrinsics (SpecFilter) *)

Exceeds(i, k) ==
    100 * PerPointStd(targets, i, k) > TopStdThreshold(targets, k, p_std)

\* C9: no image returned by the filter exceeds the percentile threshold at
\* any point; the first pass removes exactly the images that exceed it at
\* one point at least and keeps the images that are at or below it at all.
C9_AllPointsMustPass ==
    (fn = "filter_images_for_intrinsics" /\ pc # "std_pass") =>
        /\ \A i \in filterResult.keys : \A k \in DOMAIN targets[i] : ~Exceeds(i, k)
        /\ filterResult.keys \subseteq afterStd
        /\ \A i \in DOMAIN targets :
              i \in afterStd <=> (\A k \in DOMAIN targets[i] : ~Exceeds(i, k))

\* C9 witness: the filter returned images, having removed one that exceeds
\* the threshold at one point and not at another.
C9_Witness ==
    /\ fn = "filter_images_for_intrinsics" /\ pc = "done"
    /\ filterResult.ret = "dict"
    /\ \E i \in DOMAIN targets :
          /\ i \notin afterStd
          /\ \E k \in DOMAIN targets[i] : Exceeds(i, k)
          /\ \E k \in DOMAIN targets[i] : ~Exceeds(i, k)

\* C13: the spatial-diversity pass removes at least one image from every
\* non-empty set it receives, the images of largest average similarity
\* among them, for every exclusion percentile; a set of exactly one image
\* always ends in the "no valid targets" result.
C13_DiversityPassRemovesTheMaximum ==
    (fn = "filter_images_for_intrinsics" /\ pc = "done" /\ afterStd # {}) =>
        /\ filterResult.keys \subseteq afterStd
        /\ filterResult.keys # afterStd
        /\ \A i \in afterStd :
              (\A j \in afterStd : sims[j] <= sims[i]) => i \notin filterResult.keys
        /\ Cardinality(afterStd) = 1 => filterResult = NoneResult

\* C13 witness: with exclusion percentile 0 the single image that survived
\* the first pass is removed and the filter returns None.
C13_Witness ==
    /\ fn = "filter_images_for_intrinsics" /\ pc = "done"
    /\ p_dist = 0
    /\ Cardinality(afterStd) = 1
    /\ filterResult = NoneResult

----------------------------------------------------------------------------
(* Claims about find_all_calibration_targets (SpecPool) *)

\* C10: when find_all_calibration_targets has returned or propagated its
\* error, the pool is closed and joined, every submitted task has finished
\* and no worker is left running.
C10_PoolDrainedAndJoined ==
    (fn = "find_all_calibration_targets" /\ pc = "done") =>
        /\ poolState = "joined"
        /\ \A k \in DOMAIN process_results : process_results[k].state = "ready"
        /\ \A w \in DOMAIN workers : workers[w] = Exited

\* C10 witness: the first of three tasks raised; the error was propagated.
C10_Witness ==
    /\ fn = "find_all_calibration_targets" /\ pc = "done"
    /\ status = "raised" /\ err = "cv2.error"
    /\ Len(process_results) = 3
    /\ ~process_results[1].ok

\* C11: whatever order the workers finish in, the results file holds one
\* entry per submitted image, in submission order, and each entry is the
\* pair of that image and of what the detection returned on it.
C11_ResultsInSubmissionOrder ==
    (fn = "find_all_calibration_targets" /\ targetsFile.written) =>
        /\ Len(targetsFile.table) = Len(image_uris)
        /\ \A i \in DOMAIN image_uris :
              targetsFile.table[i] = <<image_uris[i], detection[image_uris[i]]>>

\* C11 witness: three images with different detection results were written
\* although the second task finished before the first.
C11_Witness ==
    /\ fn = "find_all_calibration_targets" /\ targetsFile.written
    /\ Len(image_uris) = 3
    /\ completed[1] = 2
    /\ detection[image_uris[1]] # detection[image_uris[2]]

----------------------------------------------------------------------------
(* Claims about the camera models (SpecModel) *)

\* the cameras the constructed model was declared for
DeclaredCams ==
    IF fn = "CameraTransformer" THEN CamSet(cameras)
    ELSE m_intrinsics \cup DOMAIN m_extrinsics
         \cup UNION {DOMAIN m_extrinsics[r] : r \in DOMAIN m_extrinsics}

\* C5: once a camera model is constructed, no triangulation or projection
\* call between cameras of the declared set fails on a missing intrinsics
\* or extrinsics entry.
C5_MissingArtifactFailsAtConstruction ==
    (pc = "constructed" /\ call # NoCall
       /\ call.obs \subseteq DeclaredCams /\ call.main \in DeclaredCams)
    => call.outcome # "KeyError"

\* C6: a triangulation entry point of CameraTransformer that is given
\* observations from fewer than 2 cameras fails and returns no 3D point.
C6_FewerThanTwoViewsFails ==
    (pc = "constructed" /\ call # NoCall
       /\ call.op \in {"DLT", "triangulate_point"}
       /\ Cardinality(call.obs) < 2)
    => call.outcome # "returned"

\* C8: in every constructed camera model the transform used for a
\* self-pair is the identity, whatever the loaded artifact holds.
C8_SelfPairIsIdentity ==
    pc = "constructed" =>
        /\ \A c \in DOMAIN projection_matrices :
              projection_matrices[c][c].Rt = "I"
        /\ (call # NoCall /\ call.op = "triangulate_points"
              /\ call.outcome = "returned") => call.used[1].Rt = "I"

\* C12: the projection matrix the camera model uses for the pair
\* (reference, c) is the product of camera c's own calibration matrix with
\* [R | t] of the (reference, c) extrinsic, for every reference camera and
\* every camera c.
C12_ProjectionUsesOwnCalibrationMatrix ==
    pc = "constructed" =>
        /\ \A ref \in DOMAIN projection_matrices :
              \A c \in DOMAIN projection_matrices[ref] \cap CamSet(cameras) :
                 projection_matrices[ref][c].K = c
        /\ (call # NoCall /\ call.op = "triangulate_points"
              /\ call.outcome = "returned") =>
              LET to == IF call.obs = {call.main} THEN call.main
                        ELSE CHOOSE c \in call.obs : c # call.main
              IN  /\ call.used[1] = Projection(call.main, m_extrinsics[call.main][call.main])
                  /\ call.used[2] = Projection(to, m_extrinsics[call.main][to])

----------------------------------------------------------------------------
(* Claims about ImageManager.collect_images (SpecCollect) *)

RECURSIVE Successes(_)
Successes(log) ==
    IF log = <<>> THEN 0
    ELSE (IF log[Len(log)] THEN 1 ELSE 0) + Successes(SubSeq(log, 1, Len(log) - 1))

RECURSIVE TrailingFailures(_)
TrailingFailures(log) ==
    IF log = <<>> \/ log[Len(log)] THEN 0
    ELSE 1 + TrailingFailures(SubSeq(log, 1, Len(log) - 1))

CollectLoopOver ==
    \/ Successes(saveLog) = num_images_to_collect
    \/ TrailingFailures(saveLog) > max_error_frames

C14_Safety ==
    fn = "collect_images" =>
        /\ collected_frames = Successes(saveLog)
        /\ collected_frames <= num_images_to_collect
        /\ pc = "loop" => TrailingFailures(saveLog) <= max_error_frames
        /\ (pc = "loop" /\ ENABLED CollectSaveImage) => ~CollectLoopOver
        /\ (pc = "done" /\ status = "returned") => CollectLoopOver
        /\ pc = "done" => stopped = <<"multi_stream_sender", "image_saver">>

\* C14: collect_images always terminates, save_image always returning or
\* raising; its loop runs exactly until num_images_to_collect frames were
\* saved or more than max_error_frames consecutive saves failed, it never
\* counts more frames than asked for, and on every exit path the stream
\* sender and then the image saver are stopped.
C14_CollectImagesTerminates ==
    /\ []C14_Safety
    /\ <>(pc = "done")

\* C14 witness: a run that saved a frame after a failure (the counter was
\* reset) and later gave up on too many consecutive failures.
C14_Witness ==
    /\ fn = "collect_images" /\ pc = "done" /\ status = "returned"
    /\ Successes(saveLog) >= 1
    /\ Successes(saveLog) < num_images_to_collect
    /\ Len(saveLog) - Successes(saveLog) > TrailingFailures(saveLog)
    /\ stopped = <<"multi_stream_sender", "image_saver">>

====
